---- MODULE Spec2Model ----
\* Model of toga_iOS/container.py: BaseContainer, Container and its three
\* subclasses ControlledContainer, RootContainer and NavigationContainer.
\*
\* Objects are tagged tuples: <<"container", i>>, <<"widget", i>>, <<"UIView", i>>.
\* Geometry values (CGFloat in the program) are modelled as integers.
EXTENDS Integers, Sequences, FiniteSets, TLC

\* ---------------------------------------------------------------- bounds
NumContainers == 2
NumWidgets == 2
MaxDim == 1
MaxBar == 2

\* ---------------------------------------------------------------- values
None == <<"None">>
Containers == {<<"container", i>> : i \in 1..NumContainers}
Widgets == {<<"widget", i>> : i \in 1..NumWidgets}
\* The callables a caller may pass as on_refresh.
Callbacks == {<<"callable", "content_refreshed">>}
Titles == {"Home"}
\* The four classes of the module that can be instantiated with a native view.
Kinds == {"Container", "ControlledContainer", "RootContainer", "NavigationContainer"}
Unconstructed == "unconstructed"
\* The UIView allocated by Container.__init__ for container c.
NativeOf(c) == <<"UIView", c[2]>>
\* A view owned by somebody else (e.g. a scroll view) passed as layout_native.
ExtView == <<"UIView", 0>>
Views == {NativeOf(c) : c \in Containers} \cup {ExtView}
Dims == 0..MaxDim
Bars == 0..MaxBar
\* Python truthiness of a widget reference: None is falsy, a widget object is truthy.
Truthy(x) == x # None

VARIABLES
    kind,            \* class of each container object (Unconstructed before __init__)
    content,         \* BaseContainer._content
    on_refresh,      \* BaseContainer.on_refresh
    layout_native,   \* Container.layout_native
    title,           \* RootContainer._title / topViewController.title
    wcontainer,      \* widget.container of every widget
    bounds,          \* view.bounds.size of every native view
    statusBarHeight, \* UIApplication.sharedApplication.statusBarFrame.size.height
    navBarHeight,    \* controller.navigationBar.frame.size.height
    last,            \* the operation performed last
    outcome,         \* how it ended: "ok" or the exception raised
    invoked,         \* the callback invocations it made, in order
    readout          \* the values returned by the last property reads

vars == <<kind, content, on_refresh, layout_native, title, wcontainer, bounds,
          statusBarHeight, navBarHeight, last, outcome, invoked, readout>>

constructed(c) == kind[c] # Unconstructed

\* Container objects are allocated one after the other.
NextFresh(c) ==
    /\ ~constructed(c)
    /\ \A d \in Containers : d[2] < c[2] => constructed(d)

\* ---------------------------------------------------------------- geometry
width(c) == bounds[layout_native[c]].width

\* A NavigationContainer that forgets the navigation bar.
top_offset_NoNavigationBar(c) ==
    IF kind[c] \in {"RootContainer", "NavigationContainer"} THEN statusBarHeight ELSE 0

top_offset(c) ==
    CASE kind[c] = "RootContainer" -> statusBarHeight
      [] kind[c] = "NavigationContainer" -> statusBarHeight + navBarHeight[c]
      [] OTHER -> 0

\* A usable height that is never reported below zero.
height_Clamped(c) ==
    LET h == IF kind[c] \in {"RootContainer", "NavigationContainer"}
             THEN bounds[layout_native[c]].height - top_offset(c)
             ELSE bounds[layout_native[c]].height
    IN  IF h < 0 THEN 0 ELSE h

height(c) ==
    IF kind[c] \in {"RootContainer", "NavigationContainer"}
    THEN bounds[layout_native[c]].height - top_offset(c)
    ELSE bounds[layout_native[c]].height

\* ---------------------------------------------------------------- operations
NoReads == [width |-> None, height |-> None, top_offset |-> None]

\* The record of an operation: the call made, its receiver and arguments, and the
\* content the receiver held when it was called.
Op(op, self, arg, old, layout) ==
    [op |-> op, self |-> self, arg |-> arg, old |-> old, layout |-> layout]

\* A constructor that ignores its layout_native argument.
LayoutNativeFor_OwnView(self, layout_arg) == NativeOf(self)

\* Container.__init__: the view that provides the size hints.
LayoutNativeFor(self, layout_arg) ==
    IF layout_arg = None THEN NativeOf(self) ELSE layout_arg

\* A refreshed() that skips a missing callback ("if self.on_refresh:").
RefreshOutcome_Guarded(self) == "ok"

\* The outcome of calling on_refresh: calling None raises TypeError.
RefreshOutcome(self) ==
    IF on_refresh[self] \in Callbacks THEN "ok" ELSE "TypeError"

\* cls(content=content_arg, layout_native=layout_arg, on_refresh=on_refresh_arg)
Construct(self, cls, content_arg, layout_arg, on_refresh_arg) ==
    /\ NextFresh(self)
    /\ kind' = [kind EXCEPT ![self] = cls]
    /\ content' = [content EXCEPT ![self] = content_arg]
    /\ on_refresh' = [on_refresh EXCEPT ![self] = on_refresh_arg]
    /\ layout_native' = [layout_native EXCEPT ![self] = LayoutNativeFor(self, layout_arg)]
    /\ last' = Op("init", self, content_arg, None, layout_arg)
    /\ outcome' = "ok"
    /\ invoked' = <<>>
    /\ readout' = NoReads
    /\ UNCHANGED <<title, wcontainer, bounds, statusBarHeight, navBarHeight>>

\* A setter that does not clear the old content's container.
ContainerAfterSet_NoDetach(self, widget) ==
    IF Truthy(widget) THEN [wcontainer EXCEPT ![widget] = self] ELSE wcontainer

\* A setter that does not give the new content its container.
ContainerAfterSet_NoAttach(self, widget) ==
    IF Truthy(content[self]) THEN [wcontainer EXCEPT ![content[self]] = None]
    ELSE wcontainer

\* A setter that attaches the new content before it detaches the old one.
ContainerAfterSet_DetachAfter(self, widget) ==
    LET attached == IF Truthy(widget) THEN [wcontainer EXCEPT ![widget] = self]
                    ELSE wcontainer
    IN  IF Truthy(content[self]) THEN [attached EXCEPT ![content[self]] = None]
        ELSE attached

\* The widget references after "self.content = widget".
ContainerAfterSet(self, widget) ==
    LET detached == IF Truthy(content[self])
                    THEN [wcontainer EXCEPT ![content[self]] = None]
                    ELSE wcontainer
    IN  IF Truthy(widget) THEN [detached EXCEPT ![widget] = self] ELSE detached

\* self.content = widget
SetContent(self, widget) ==
    /\ constructed(self)
    /\ wcontainer' = ContainerAfterSet(self, widget)
    /\ content' = [content EXCEPT ![self] = widget]
    /\ last' = Op("set_content", self, widget, content[self], None)
    /\ outcome' = "ok"
    /\ invoked' = <<>>
    /\ readout' = NoReads
    /\ UNCHANGED <<kind, on_refresh, layout_native, title, bounds,
                   statusBarHeight, navBarHeight>>

\* A refreshed() that notifies the callback twice.
RefreshCalls_Twice(self) ==
    IF on_refresh[self] \in Callbacks
    THEN << [fn |-> on_refresh[self], args |-> <<self>>],
            [fn |-> on_refresh[self], args |-> <<self>>] >>
    ELSE <<>>

\* The invocations made by self.refreshed(): on_refresh(self).
RefreshCalls(self) ==
    IF on_refresh[self] \in Callbacks
    THEN << [fn |-> on_refresh[self], args |-> <<self>>] >>
    ELSE <<>>

\* self.refreshed(); calling None raises TypeError.
Refreshed(self) ==
    /\ constructed(self)
    /\ invoked' = RefreshCalls(self)
    /\ outcome' = RefreshOutcome(self)
    /\ last' = Op("refreshed", self, None, None, None)
    /\ readout' = NoReads
    /\ UNCHANGED <<kind, content, on_refresh, layout_native, title, wcontainer,
                   bounds, statusBarHeight, navBarHeight>>

\* self.title = value
SetTitle(self, value) ==
    /\ constructed(self)
    /\ title' = [title EXCEPT ![self] = value]
    /\ last' = Op("set_title", self, None, None, None)
    /\ outcome' = "ok"
    /\ invoked' = <<>>
    /\ readout' = NoReads
    /\ UNCHANGED <<kind, content, on_refresh, layout_native, wcontainer, bounds,
                   statusBarHeight, navBarHeight>>

\* Reading self.width, self.height and self.top_offset.
Read(self) ==
    /\ constructed(self)
    /\ readout' = [width |-> width(self), height |-> height(self),
                   top_offset |-> top_offset(self)]
    /\ last' = Op("read", self, None, None, None)
    /\ outcome' = "ok"
    /\ invoked' = <<>>
    /\ UNCHANGED <<kind, content, on_refresh, layout_native, title, wcontainer,
                   bounds, statusBarHeight, navBarHeight>>

\* UIKit lays out view v: its bounds become w x h.
ViewExists(v) == v = ExtView \/ \E c \in Containers : constructed(c) /\ v = NativeOf(c)

SetBounds(v, w, h) ==
    /\ ViewExists(v)
    /\ bounds' = [bounds EXCEPT ![v] = [width |-> w, height |-> h]]
    /\ last' = Op("set_bounds", None, None, None, None)
    /\ outcome' = "ok"
    /\ invoked' = <<>>
    /\ readout' = NoReads
    /\ UNCHANGED <<kind, content, on_refresh, layout_native, title, wcontainer,
                   statusBarHeight, navBarHeight>>

\* The status bar changes height (rotation, in-call bar, hidden status bar).
SetStatusBarHeight(h) ==
    /\ statusBarHeight' = h
    /\ last' = Op("set_status_bar", None, None, None, None)
    /\ outcome' = "ok"
    /\ invoked' = <<>>
    /\ readout' = NoReads
    /\ UNCHANGED <<kind, content, on_refresh, layout_native, title, wcontainer,
                   bounds, navBarHeight>>

\* The navigation bar of a NavigationContainer's controller changes height.
SetNavigationBarHeight(self, h) ==
    /\ kind[self] = "NavigationContainer"
    /\ navBarHeight' = [navBarHeight EXCEPT ![self] = h]
    /\ last' = Op("set_navigation_bar", None, None, None, None)
    /\ outcome' = "ok"
    /\ invoked' = <<>>
    /\ readout' = NoReads
    /\ UNCHANGED <<kind, content, on_refresh, layout_native, title, wcontainer,
                   bounds, statusBarHeight>>

\* ---------------------------------------------------------------- specifications
\* No container exists yet; no widget is attached; fresh views have empty bounds.
Init ==
    /\ kind = [c \in Containers |-> Unconstructed]
    /\ content = [c \in Containers |-> None]
    /\ on_refresh = [c \in Containers |-> None]
    /\ layout_native = [c \in Containers |-> None]
    /\ title = [c \in Containers |-> None]
    /\ wcontainer = [w \in Widgets |-> None]
    /\ bounds = [v \in Views |-> [width |-> 0, height |-> 0]]
    /\ statusBarHeight = 0
    /\ navBarHeight = [c \in Containers |-> 0]
    /\ last = Op("none", None, None, None, None)
    /\ outcome = "ok"
    /\ invoked = <<>>
    /\ readout = NoReads

\* The constructor calls explored by the bookkeeping specification: the base
\* Container with a foreign layout view, and a subclass with the default one.
BookkeepingCtors == {<<"Container", ExtView>>, <<"NavigationContainer", None>>}

DoConstruct ==
    \E c \in Containers, kl \in BookkeepingCtors, w \in Widgets \cup {None},
       f \in Callbacks \cup {None} : Construct(c, kl[1], w, kl[2], f)

\* The first container, of any class, with or without a layout view of its own.
First == <<"container", 1>>

DoConstructFirst ==
    \E k \in Kinds, l \in {None, ExtView}, f \in Callbacks \cup {None} :
        Construct(First, k, None, l, f)

DoSetContent == \E c \in Containers, w \in Widgets \cup {None} : SetContent(c, w)

DoRefreshed == \E c \in Containers : Refreshed(c)

DoSetTitle == \E c \in Containers, t \in Titles : SetTitle(c, t)

DoRead == \E c \in Containers : Read(c)

DoSetBounds == \E v \in Views, w \in Dims, h \in Dims : SetBounds(v, w, h)

DoSetStatusBarHeight == \E h \in Bars : SetStatusBarHeight(h)

DoSetNavigationBarHeight == \E c \in Containers, h \in Bars : SetNavigationBarHeight(c, h)

\* Content bookkeeping of any number of containers and widgets.
Next == DoConstruct \/ DoSetContent \/ DoRefreshed

Spec == Init /\ [][Next]_vars

\* One container of any class under every native geometry.
NextGeom ==
    \/ DoConstructFirst
    \/ DoRead
    \/ DoSetBounds
    \/ DoSetStatusBarHeight
    \/ DoSetNavigationBarHeight

SpecGeom == Init /\ [][NextGeom]_vars

\* One container of any class: every operation on it while its views are laid out.
NextLayout ==
    \/ DoConstructFirst
    \/ DoSetContent
    \/ DoRefreshed
    \/ DoSetTitle
    \/ DoRead
    \/ DoSetBounds

SpecLayout == Init /\ [][NextLayout]_vars

\* ---------------------------------------------------------------- claims
\* The layout view of container c and its size.
LayoutSize(c) == bounds[layout_native[c]]

\* C1: after "c.content = w" on a container whose content was o (o # w), o.container
\* is None, c.content is w and, unless w is None, w.container is c; when c had no
\* content the assignment sets only c.content and w.container. No other widget or
\* container changes, and c.on_refresh, the class and c.layout_native are untouched.
C1_ReplaceContent ==
    [][last'.op = "set_content" =>
        LET c == last'.self
            w == last'.arg
            o == content[c]
        IN  /\ content'[c] = w
            /\ (o # None /\ o # w) => wcontainer'[o] = None
            /\ w # None => wcontainer'[w] = c
            /\ \A x \in Widgets \ {o, w} : wcontainer'[x] = wcontainer[x]
            /\ \A d \in Containers \ {c} : content'[d] = content[d]
            /\ UNCHANGED <<on_refresh, kind, layout_native, title, bounds>>
    ]_vars

\* C1 witness: a container whose content o was replaced by another widget w.
C1_Replaced ==
    /\ last.op = "set_content"
    /\ last.old \in Widgets /\ last.arg \in Widgets /\ last.old # last.arg
    /\ content[last.self] = last.arg
    /\ wcontainer[last.old] = None
    /\ on_refresh[last.self] \in Callbacks

\* C2: refreshed() on a container with a callable on_refresh makes exactly one
\* invocation, on_refresh(c), and changes neither the content nor any widget's
\* container; the constructor and the content setter invoke nothing.
C2_RefreshedNotifies ==
    [][/\ (last'.op = "refreshed" /\ on_refresh[last'.self] \in Callbacks) =>
            /\ invoked' = << [fn |-> on_refresh[last'.self], args |-> <<last'.self>>] >>
            /\ outcome' = "ok"
            /\ UNCHANGED <<content, wcontainer, on_refresh>>
       /\ last'.op \in {"init", "set_content"} => invoked' = <<>>
    ]_vars

\* C2 witness: a container holding content was refreshed and its callback ran.
C2_Notified ==
    /\ last.op = "refreshed"
    /\ Len(invoked) = 1
    /\ content[last.self] \in Widgets
    /\ wcontainer[content[last.self]] = last.self

\* C3: top_offset read from a Container or ControlledContainer is 0, from a
\* RootContainer the current status bar height, from a NavigationContainer the
\* current status bar height plus the current navigation bar height.
C3_TopOffset ==
    last.op = "read" =>
        LET c == last.self IN
        /\ kind[c] \in {"Container", "ControlledContainer"} => readout.top_offset = 0
        /\ kind[c] = "RootContainer" => readout.top_offset = statusBarHeight
        /\ kind[c] = "NavigationContainer" =>
               readout.top_offset = statusBarHeight + navBarHeight[c]

\* C3 witness: a NavigationContainer read after both bars grew since construction.
C3_ReadAfterBarsChanged ==
    /\ last.op = "read"
    /\ kind[last.self] = "NavigationContainer"
    /\ statusBarHeight > 0 /\ navBarHeight[last.self] > 0
    /\ readout.top_offset = statusBarHeight + navBarHeight[last.self]

\* C4: for every class, the height and top_offset read add up to the height of
\* layout_native's bounds, and the width read is the width of those bounds; the
\* height is not clamped at zero.
C4_HeightPlusOffset ==
    last.op = "read" =>
        /\ readout.height + readout.top_offset = LayoutSize(last.self).height
        /\ readout.width = LayoutSize(last.self).width

\* C4 witness: a read that reports a negative height.
C4_NegativeHeight ==
    /\ last.op = "read"
    /\ readout.height < 0
    /\ LayoutSize(last.self).height < readout.top_offset

\* C5: a container built without layout_native uses its own native view, one built
\* with a view L uses L; no operation changes layout_native afterwards; and a change
\* of the bounds of a view that is not layout_native changes neither width nor height.
C5_LayoutNative ==
    [][/\ last'.op = "init" =>
            layout_native'[last'.self] =
                IF last'.layout = None THEN NativeOf(last'.self) ELSE last'.layout
       /\ \A c \in Containers :
            constructed(c) => layout_native'[c] = layout_native[c]
       /\ \A c \in Containers :
            (/\ constructed(c)
             /\ last'.op = "set_bounds"
             /\ bounds'[layout_native[c]] = bounds[layout_native[c]]) =>
                /\ width(c)' = width(c)
                /\ height(c)' = height(c)
    ]_vars

\* C5 witness: a container built with a foreign layout view was read after its own
\* native view got bounds different from the layout view's.
C5_ForeignLayoutRead ==
    /\ last.op = "read"
    /\ layout_native[last.self] = ExtView
    /\ bounds[NativeOf(last.self)].width # bounds[ExtView].width
    /\ bounds[NativeOf(last.self)].height # bounds[ExtView].height
    /\ readout.width = bounds[ExtView].width
    /\ readout.height = bounds[ExtView].height
    /\ content[last.self] \in Widgets

\* C6: in every reachable state, a container's content widget refers back to that
\* container.
C6_BackReference ==
    \A c \in Containers :
        (constructed(c) /\ content[c] \in Widgets) => wcontainer[content[c]] = c

\* C7: a widget whose container is c is the content of c; hence no two widgets
\* refer to the same container.
C7_ForwardReference ==
    /\ \A w \in Widgets, c \in Containers : wcontainer[w] = c => content[c] = w
    /\ \A w1, w2 \in Widgets :
           (wcontainer[w1] # None /\ wcontainer[w1] = wcontainer[w2]) => w1 = w2

\* C7 witness: a content assignment replaced a widget, and two widgets are attached
\* to two different containers.
C7_TwoAttached ==
    /\ last.op = "set_content"
    /\ last.old \in Widgets
    /\ \E w1, w2 \in Widgets :
           /\ w1 # w2
           /\ wcontainer[w1] \in Containers /\ wcontainer[w2] \in Containers
           /\ wcontainer[w1] # wcontainer[w2]

\* C8: assigning to a container the widget it already holds (which refers back to
\* it) leaves both references as they were; assigning None to a container without
\* content leaves it without content and changes no widget.
C8_ReassignSame ==
    [][last'.op = "set_content" =>
        LET c == last'.self
            w == last'.arg
        IN  /\ (w \in Widgets /\ content[c] = w /\ wcontainer[w] = c) =>
                   /\ content'[c] = w
                   /\ wcontainer'[w] = c
                   /\ UNCHANGED <<content, wcontainer>>
            /\ (w = None /\ content[c] = None) =>
                   /\ content'[c] = None
                   /\ UNCHANGED <<content, wcontainer>>
    ]_vars

\* C8 witness: a container was assigned the widget it already held.
C8_Reassigned ==
    /\ last.op = "set_content"
    /\ last.arg \in Widgets /\ last.old = last.arg
    /\ content[last.self] = last.arg
    /\ wcontainer[last.arg] = last.self

\* C9: refreshed() on a container built without on_refresh raises TypeError, invokes
\* nothing, and leaves the content, the widgets' containers and layout_native alone.
C9_RefreshedWithoutCallback ==
    [][(last'.op = "refreshed" /\ on_refresh[last'.self] = None) =>
            /\ outcome' = "TypeError"
            /\ invoked' = <<>>
            /\ UNCHANGED <<content, wcontainer, layout_native, on_refresh, kind>>
    ]_vars

\* C9 witness: refreshed() failed on a container that holds content.
C9_Failed ==
    /\ last.op = "refreshed"
    /\ outcome = "TypeError"
    /\ on_refresh[last.self] = None
    /\ content[last.self] \in Widgets

====
